---- MODULE Spec2Model ----
(***************************************************************************)
(* aider_wrapper.py: a wrapper that builds an instruction document, stages *)
(* it in a temporary file, spawns aider on pipes, answers its prompts      *)
(* and finally relocates and removes the staged file.                      *)
(*                                                                         *)
(* Text is modelled as a sequence of tokens.  The tokens of a child output *)
(* line are the pieces the three prompt patterns are made of, a token for  *)
(* any other text, and the line terminator.  A pattern occurs in the       *)
(* concatenated characters exactly where its tokens occur in the sequence. *)
(***************************************************************************)
EXTENDS Integers, Sequences, FiniteSets, TLC

\* ------------------------------------------------------------ bounds
\* Longest child output line (in tokens, terminator not counted) drawn in
\* SpecPrompts.
MaxLineLen == 6
\* Most lines the child writes in one run of Spec.
MaxChildLines == 2
\* Longest clipboard text (in characters) drawn in SpecClipboard.
MaxClipLen == 6
\* Most calls the WebSocketManager makes on its parent in one run of
\* SpecManager.
MaxManagerCalls == 7

\* ------------------------------------------------------------ tokens
tAdd  == "Add "
tURL  == "URL"
tTail == " to the chat? (Y)es/(N)o"
tTailAll == " to the chat? (Y)es/(N)o/(A)ll/(S)kip all"
tYes  == " [Yes]:"
tText == "foo.py"
NL    == "\n"

LineTokens == {tAdd, tURL, tTail, tTailAll, tYes, tText}

Streams == {"stdout", "stderr"}

\* The three prompts of aider the wrapper knows, as they appear in the source.
MultiLinkPrompt  == <<tAdd, tURL, tTailAll, tYes>>
SingleLinkPrompt == <<tAdd, tURL, tTail, tYes>>
FilePrompt       == <<tAdd, tText, tTail, tYes>>

\* ------------------------------------------------------------ text helpers
Range(s) == {s[i] : i \in 1..Len(s)}

\* Python's (pat in line) on token sequences.
Contains(line, pat) ==
    \E i \in 0..(Len(line) - Len(pat)) : SubSeq(line, i + 1, i + Len(pat)) = pat

\* re.search(r'Add .+ to the chat\? \(Y\)es/\(N\)o \[Yes\]:', line): "Add ",
\* then one or more characters other than a line terminator, then the tail.
re_search_file_prompt(line) ==
    \E i \in 1..Len(line) : \E j \in (i + 2)..(Len(line) - 1) :
        /\ line[i] = tAdd
        /\ line[j] = tTail
        /\ line[j + 1] = tYes
        /\ \A k \in (i + 1)..(j - 1) : line[k] # NL

HasNL(s) == \E i \in 1..Len(s) : s[i] = NL

FirstNL(s) == CHOOSE i \in 1..Len(s) : s[i] = NL /\ \A j \in 1..(i - 1) : s[j] # NL

\* What readline() returns from the characters at hand: up to and including
\* the first terminator, or all of them when there is none.
FirstLine(s) == IF HasNL(s) THEN SubSeq(s, 1, FirstNL(s)) ELSE s

AfterFirstLine(s) == IF HasNL(s) THEN SubSeq(s, FirstNL(s) + 1, Len(s)) ELSE <<>>

\* ------------------------------------------------------------ prompt rules
\* The if/elif/elif chain of handle_aider_prompts: the writes to the child's
\* stdin that one line causes.
PromptResponseMultiFirst(line) ==
    IF Contains(line, MultiLinkPrompt) THEN <<"S\n">>
    ELSE IF re_search_file_prompt(line) THEN <<"Y\n">>
    ELSE IF Contains(line, SingleLinkPrompt) THEN <<"N\n">>
    ELSE <<>>

PromptResponseNoMulti(line) ==
    IF re_search_file_prompt(line) THEN <<"Y\n">>
    ELSE IF Contains(line, SingleLinkPrompt) THEN <<"N\n">>
    ELSE <<>>

PromptResponseLooseFile(line) ==
    IF \E i \in 1..Len(line) : \E j \in (i + 2)..Len(line) :
           line[i] = tAdd /\ line[j] = tTail
    THEN <<"Y\n">>
    ELSE IF Contains(line, MultiLinkPrompt) THEN <<"S\n">>
    ELSE IF Contains(line, SingleLinkPrompt) THEN <<"N\n">>
    ELSE <<>>

\* Three separate ifs in place of the chain: every matching rule answers.
PromptResponseEveryMatch(line) ==
    (IF re_search_file_prompt(line) THEN <<"Y\n">> ELSE <<>>)
    \o (IF Contains(line, MultiLinkPrompt) THEN <<"S\n">> ELSE <<>>)
    \o (IF Contains(line, SingleLinkPrompt) THEN <<"N\n">> ELSE <<>>)

PromptResponse(line) ==
    IF re_search_file_prompt(line) THEN <<"Y\n">>
    ELSE IF Contains(line, MultiLinkPrompt) THEN <<"S\n">>
    ELSE IF Contains(line, SingleLinkPrompt) THEN <<"N\n">>
    ELSE <<>>

\* ------------------------------------------------------------ the document
FileNames == {"a.py", "b.py"}

\* The command lines' file arguments.
FilenameArgs == {<<>>, <<"a.py">>, <<"b.py", "a.py">>}

\* read_file_content(filename): what open(filename).read() gives.
read_file_content(filename) == IF filename = "a.py" THEN "print(1)" ELSE "print(2)"

\* {filename: read_file_content(filename) for filename in filenames}: a dict
\* keeps one entry per key, in the order of first insertion.
RECURSIVE DictOf(_)
DictOf(names) ==
    IF names = <<>> THEN <<>>
    ELSE LET front == DictOf(SubSeq(names, 1, Len(names) - 1))
             last  == names[Len(names)]
         IN IF \E i \in 1..Len(front) : front[i][1] = last
            THEN front
            ELSE Append(front, <<last, read_file_content(last)>>)

\* The code fence (three backquotes) that opens and closes a file's block.
Fence == "[fence]"

\* One block of existing_code: the header naming the file, then its content
\* between two fences.
FileBlock(entry) == <<"File: ", entry[1], NL, Fence, NL, entry[2], NL, Fence>>

\* "\n\n".join(blocks)
RECURSIVE JoinBlocks(_)
JoinBlocks(entries) ==
    IF entries = <<>> THEN <<>>
    ELSE IF Len(entries) = 1 THEN FileBlock(entries[1])
    ELSE FileBlock(entries[1]) \o <<"\n\n">> \o JoinBlocks(Tail(entries))

\* The fixed preamble; it is not an f-string, so its "{task}" stays as written.
PromptPreamble == <<"You are Claude Dev ...", "<task_description>\n{task}\n</task_description>">>

create_message_content(instr, contents) ==
    LET existing_code == JoinBlocks(contents)
        prompt == PromptPreamble
    IN prompt \o <<"\n\n<problem_description>\n">> \o instr
              \o <<"\n</problem_description>">>

\* ------------------------------------------------------------ get_clipboard_content
\* A text is a sequence of characters; CR is the carriage return and NL (above)
\* the line feed.
CR == "\r"

\* The characters of the clipboard texts.
ClipChars == {"a", " ", CR, NL}

\* What str.strip() takes off both ends.
Whitespace == {" ", CR, NL}

\* str.startswith(old) at the head of s.
StartsWith(s, old) == Len(s) >= Len(old) /\ SubSeq(s, 1, Len(old)) = old

\* s.replace(old, new): the occurrences of old, found left to right and not
\* overlapping, each replaced by new.
RECURSIVE Replace(_, _, _)
Replace(s, old, new) ==
    IF s = <<>> THEN <<>>
    ELSE IF StartsWith(s, old)
    THEN new \o Replace(SubSeq(s, Len(old) + 1, Len(s)), old, new)
    ELSE <<Head(s)>> \o Replace(Tail(s), old, new)

\* One pass of the replacement only.
CollapseOnce(s) == Replace(s, <<NL, NL, NL>>, <<NL, NL>>)

\* while '\n\n\n' in content: content = content.replace('\n\n\n', '\n\n')
RECURSIVE CollapseBlankLines(_)
CollapseBlankLines(s) ==
    IF Contains(s, <<NL, NL, NL>>)
    THEN CollapseBlankLines(Replace(s, <<NL, NL, NL>>, <<NL, NL>>))
    ELSE s

\* str.lstrip() and str.rstrip()
RECURSIVE LStrip(_)
LStrip(s) == IF s # <<>> /\ Head(s) \in Whitespace THEN LStrip(Tail(s)) ELSE s

RECURSIVE RStrip(_)
RStrip(s) ==
    IF s # <<>> /\ s[Len(s)] \in Whitespace
    THEN RStrip(SubSeq(s, 1, Len(s) - 1))
    ELSE s

Strip(s) == RStrip(LStrip(s))

\* What get_clipboard_content makes of pyperclip.paste(): the line endings
\* unified, the runs of blank lines collapsed, the ends stripped.
NormalizeClipboard(content) ==
    Strip(CollapseBlankLines(Replace(Replace(content, <<CR, NL>>, <<NL>>),
                                     <<CR>>, <<NL>>)))

\* ------------------------------------------------------------ the state
VARIABLES
    pc,               \* where main is
    args,             \* the parsed command line
    exitCode,         \* the wrapper's exit status, -1 while it runs
    gitResult,        \* outcome of the auto-commit step
    instructions,     \* the task text
    file_contents,    \* the dict of filename to content, as a sequence of pairs
    readCount,        \* calls of read_file_content so far
    message_content,  \* the document built by create_message_content
    temp_message_file,\* directory of the staged file ("none" before staging)
    fs,               \* the staged file's base name in each directory
    spawnCount,       \* calls of subprocess.Popen so far
    childPc,          \* the child: none, run, await (reading stdin), exited
    childRc,          \* the child's exit status
    emitted,          \* what the child has written: <<stream, text>> pairs
    pipe,             \* per stream, the text written and not yet read
    closed,           \* per stream, whether its write end is closed
    pybuf,            \* per stream, text read from the pipe and not yet returned
    stdinPipe,        \* responses written and not yet read by the child
    stdinWrites,      \* every response written to the child's stdin
    ready,            \* the streams select returned, not yet handled
    line,             \* the last line readline returned
    console,          \* the lines echoed to the user
    fatal,            \* the fatal condition that ended the run, or none
    moveResult,       \* outcome of shutil.move: none, or [cwd, ok]
    unlinkAttempts,   \* calls of os.unlink so far
    log,              \* the warnings and errors main has printed
    echoed,           \* per stream, the text of it echoed so far
    clipboard,        \* the text on the system clipboard
    typed,            \* the line the user types when asked for the content
    connection_state, \* WebSocketManager.connection_state
    reconnect_attempts, \* WebSocketManager.reconnect_attempts
    logged,           \* the calls of parent.log_message, in order
    options,          \* the parsed --chat-mode, --model, --suggest-shell-commands
    aider_command     \* the argument list given to subprocess.Popen

vars == <<pc, args, exitCode, gitResult, instructions, file_contents, readCount,
          message_content, temp_message_file, fs, spawnCount, childPc, childRc,
          emitted, pipe, closed, pybuf, stdinPipe, stdinWrites, ready, line,
          console, fatal, moveResult, unlinkAttempts, log, echoed, clipboard,
          typed, connection_state, reconnect_attempts, logged, options,
          aider_command>>

mainVars  == <<aider_command, args, gitResult, instructions, file_contents, readCount,
               message_content, temp_message_file, fs, spawnCount, moveResult,
               unlinkAttempts>>
childVars == <<childPc, childRc, emitted, closed>>
loopVars  == <<pybuf, ready, line, console, echoed>>
envVars   == <<clipboard, typed, options>>
wsVars    == <<connection_state, reconnect_attempts, logged>>

Dirs == {"/tmp", "/work"}

\* tempfile.gettempdir(), where NamedTemporaryFile creates the staged file.
TempDir == "/tmp"

NoMove == [cwd |-> "none", ok |-> FALSE]

EmptyStreams == [s \in Streams |-> <<>>]

\* What the child of Spec writes at a time: a per-file prompt as a line, a
\* line of other text, or a per-file prompt left without a line terminator.
ChildLines == { Append(FilePrompt, NL), <<tText, NL>>, FilePrompt }

IsPrompt(text) ==
    \/ re_search_file_prompt(text)
    \/ Contains(text, MultiLinkPrompt)
    \/ Contains(text, SingleLinkPrompt)

\* parser.error(...) on both or neither of -c and -i.
UsageErrorOnlyBoth(a) == a.clipboard /\ a.instructions

UsageError(a) ==
    \/ a.clipboard /\ a.instructions
    \/ ~a.clipboard /\ ~a.instructions

\* The text of the instruction file, and what is on the clipboard and typed at
\* the console in the runs of Spec.
InstructionFileText == <<"fix bug">>

ClipboardExample == <<"a", CR, NL, "b", CR, NL, CR, NL, CR, NL, "c">>

TypedLine == <<" ", "f", "i", "x", " ">>

\* The defaults of --chat-mode, --model and --suggest-shell-commands.
DefaultOptions ==
    [chat_mode |-> "code", model |-> "openai/o1-preview",
     suggest_shell_commands |-> FALSE]

\* What argparse can make of the three options: --chat-mode has two choices,
\* --model is any string, the empty one included.
OptionSets ==
    [chat_mode : {"code", "ask"}, model : {"openai/o1-preview", "gpt-4o", ""},
     suggest_shell_commands : BOOLEAN]

\* An argument of the command is the sequence of the pieces of its string.
\* temp_message_file.name: the path of the staged file in directory dir.
StagedName(dir) == <<dir, "/", "aider_wrapper_.txt">>

FileArgs(names) == [i \in 1..Len(names) |-> <<names[i]>>]

\* aider_command as main builds it: the list literal, then the appended flag,
\* the model unless it is empty, and the file names.
BuildAiderCommand(opts, dir, filenames) ==
    << <<"aider">>, <<"--no-pretty">>, <<"--dark-mode">>, <<"--yes">>,
       <<"--editor-model", " ", "o1-mini">>,
       <<"--chat-mode">>, <<opts.chat_mode>>,
       <<"--message-file">>, StagedName(dir) >>
    \o (IF opts.suggest_shell_commands THEN << <<"--suggest-shell-commands">> >>
        ELSE <<>>)
    \o (IF opts.model # "" THEN << <<"--model">>, <<opts.model>> >> ELSE <<>>)
    \o FileArgs(filenames)

\* What main and get_clipboard_content print about a failure.
GitDisabledWarning   == "Warning: Git functionality is disabled. Skipping git commit."
NotARepoWarning      == "Warning: Not a git repository. Skipping git commit."
GitCommitError       == "Error creating git commit"
ClipboardUnavailable == "Error: Clipboard functionality is not available."
ClipboardError       == "Error accessing clipboard"
EnterManually        == "Please enter the content manually:"
StagingError         == "Error writing to temporary file"
ToolError            == "Error executing aider command"
Cancelled            == "Operation cancelled by user."
UnexpectedError      == "An unexpected error occurred"
MoveError            == "Error moving temporary file"

Init ==
    /\ pc = "parse"
    /\ args \in [clipboard : BOOLEAN, instructions : BOOLEAN, filenames : FilenameArgs]
    /\ exitCode = -1
    /\ gitResult = "none"
    /\ instructions = <<>>
    /\ file_contents = <<>>
    /\ readCount = 0
    /\ message_content = <<>>
    /\ temp_message_file = "none"
    /\ fs = [d \in Dirs |-> "absent"]
    /\ spawnCount = 0
    /\ childPc = "none"
    /\ childRc = -1
    /\ emitted = <<>>
    /\ pipe = EmptyStreams
    /\ closed = [s \in Streams |-> FALSE]
    /\ pybuf = EmptyStreams
    /\ stdinPipe = <<>>
    /\ stdinWrites = <<>>
    /\ ready = <<>>
    /\ line = <<>>
    /\ console = <<>>
    /\ fatal = "none"
    /\ moveResult = NoMove
    /\ unlinkAttempts = 0
    /\ log = {}
    /\ echoed = EmptyStreams
    /\ clipboard = ClipboardExample
    /\ typed = TypedLine
    /\ connection_state = "disconnected"
    /\ reconnect_attempts = 0
    /\ logged = <<>>
    /\ options = DefaultOptions
    /\ aider_command = <<>>

\* ------------------------------------------------------------ main, before the child
\* args = parser.parse_args() and the two parser.error checks.  parser.error
\* prints the usage and exits with status 2, so the sys.exit(1) after it is
\* never reached.
main_parse_args ==
    /\ pc = "parse"
    /\ IF UsageError(args)
       THEN pc' = "exit" /\ exitCode' = 2 /\ fatal' = "usage"
       ELSE pc' = "git" /\ exitCode' = exitCode /\ fatal' = fatal
    /\ UNCHANGED <<envVars, wsVars, mainVars, childVars, loopVars, pipe, stdinPipe,
                   stdinWrites, log>>

\* What the auto-commit step prints when it does not commit.
GitMessage(r) ==
    IF r = "absent" THEN {GitDisabledWarning}
    ELSE IF r = "not_a_repo" THEN {NotARepoWarning}
    ELSE IF r = "error" THEN {GitCommitError}
    ELSE {}

\* Where main goes after the auto-commit step: every outcome falls through to
\* the instructions.
AfterGitAbortOnError(r) == IF r = "error" THEN "exit" ELSE "instructions"

AfterGit(r) == "instructions"

\* The auto-commit: skipped with a warning when the git module is absent,
\* otherwise attempted; every failure is caught and printed.
main_git_commit ==
    /\ pc = "git"
    /\ \E r \in {"absent", "committed", "not_a_repo", "error"} :
        /\ gitResult' = r
        /\ log' = log \cup GitMessage(r)
        /\ pc' = AfterGit(r)
    /\ UNCHANGED <<envVars, wsVars, aider_command, args, exitCode, instructions, file_contents,
                   readCount, message_content, temp_message_file, fs, spawnCount,
                   moveResult, unlinkAttempts, childVars, loopVars, pipe,
                   stdinPipe, stdinWrites, fatal>>

\* What get_clipboard_content prints: nothing about a failure when paste()
\* returns, otherwise the error and the request to type the content.
ClipboardMessages(outcome) ==
    IF outcome = "absent" THEN {ClipboardUnavailable, EnterManually}
    ELSE IF outcome = "paste_error" THEN {ClipboardError, EnterManually}
    ELSE {}

\* A get_clipboard_content whose fallbacks return no text.
get_clipboard_content_no_fallback(outcome) ==
    IF outcome = "pasted" THEN NormalizeClipboard(clipboard) ELSE <<>>

\* get_clipboard_content(): the normalized clipboard text, or input().strip()
\* when pyperclip is None or paste() raises.
get_clipboard_content(outcome) ==
    IF outcome = "pasted" THEN NormalizeClipboard(clipboard) ELSE Strip(typed)

\* instructions = get_clipboard_content() or read_file_content(args.instructions);
\* an unreadable instruction file raises out of main (exit status 1).
main_get_instructions ==
    /\ pc = "instructions"
    /\ IF args.clipboard
       THEN \E outcome \in {"pasted", "absent", "paste_error"} :
            /\ instructions' = get_clipboard_content(outcome)
            /\ log' = log \cup ClipboardMessages(outcome)
            /\ readCount' = readCount
            /\ pc' = "files"
            /\ UNCHANGED <<exitCode, fatal>>
       ELSE \E readable \in BOOLEAN :
            /\ readCount' = readCount + 1
            /\ log' = log
            /\ IF readable
               THEN /\ instructions' = InstructionFileText
                    /\ pc' = "files"
                    /\ UNCHANGED <<exitCode, fatal>>
               ELSE /\ instructions' = instructions
                    /\ pc' = "exit"
                    /\ exitCode' = 1
                    /\ fatal' = "read"
    /\ UNCHANGED <<envVars, wsVars, aider_command, args, gitResult, file_contents, message_content,
                   temp_message_file, fs, spawnCount, moveResult, unlinkAttempts,
                   childVars, loopVars, pipe, stdinPipe, stdinWrites>>

\* file_contents = {filename: read_file_content(filename) ...}; an unreadable
\* file raises out of main (exit status 1).
main_read_files ==
    /\ pc = "files"
    /\ \E readable \in BOOLEAN :
        /\ readable \/ args.filenames # <<>>
        /\ IF readable
           THEN /\ file_contents' = DictOf(args.filenames)
                /\ readCount' = readCount + Len(args.filenames)
                /\ pc' = "build"
                /\ UNCHANGED <<exitCode, fatal>>
           ELSE /\ file_contents' = file_contents
                /\ readCount' = readCount + 1
                /\ pc' = "exit"
                /\ exitCode' = 1
                /\ fatal' = "read"
    /\ UNCHANGED <<envVars, wsVars, aider_command, args, gitResult, instructions, message_content,
                   temp_message_file, fs, spawnCount, moveResult, unlinkAttempts,
                   childVars, loopVars, pipe, stdinPipe, stdinWrites, log>>

\* message_content = create_message_content(instructions, file_contents)
main_create_message ==
    /\ pc = "build"
    /\ message_content' = create_message_content(instructions, file_contents)
    /\ pc' = "stage"
    /\ UNCHANGED <<envVars, wsVars, aider_command, args, exitCode, gitResult, instructions,
                   file_contents, readCount, temp_message_file, fs, spawnCount,
                   moveResult, unlinkAttempts, childVars, loopVars, pipe,
                   stdinPipe, stdinWrites, fatal, log>>

\* write() and close() returned without IOError: only then does main go on.
WriteCompletedOrPartial(written) == written # "empty"

WriteCompleted(written) == written = "full"

\* tempfile.NamedTemporaryFile(delete=False) creates the file; write and close
\* fill it, or raise IOError, on which main prints and exits with status 1.
main_stage ==
    /\ pc = "stage"
    /\ \E written \in {"full", "partial", "empty"} :
        /\ temp_message_file' = TempDir
        /\ fs' = [fs EXCEPT ![TempDir] = written]
        /\ IF WriteCompleted(written)
           THEN pc' = "spawn" /\ UNCHANGED <<exitCode, fatal, log>>
           ELSE /\ pc' = "exit"
                /\ exitCode' = 1
                /\ fatal' = "staging"
                /\ log' = log \cup {StagingError}
    /\ UNCHANGED <<envVars, wsVars, aider_command, args, gitResult, instructions, file_contents,
                   readCount, message_content, spawnCount, moveResult,
                   unlinkAttempts, childVars, loopVars, pipe, stdinPipe,
                   stdinWrites>>

\* aider_command is built, then subprocess.Popen(aider_command, ...): the child
\* starts, or Popen raises
\* (aider not found) and the except Exception handler exits with status 1.
main_spawn ==
    /\ pc = "spawn"
    /\ aider_command' = BuildAiderCommand(options, temp_message_file, args.filenames)
    /\ spawnCount' = spawnCount + 1
    /\ \E started \in BOOLEAN :
        IF started
        THEN pc' = "select" /\ childPc' = "run" /\ UNCHANGED <<exitCode, fatal, log>>
        ELSE /\ pc' = "exit"
             /\ childPc' = childPc
             /\ exitCode' = 1
             /\ fatal' = "spawn"
             /\ log' = log \cup {UnexpectedError}
    /\ UNCHANGED <<envVars, wsVars, args, gitResult, instructions, file_contents,
                   readCount, message_content, temp_message_file, fs, moveResult,
                   unlinkAttempts, childRc, emitted, closed, loopVars, pipe,
                   stdinPipe, stdinWrites>>

\* ------------------------------------------------------------ the child (aider)
\* The child writes one of its lines to one of its output streams; after a
\* prompt it may go on to read the answer from its stdin.
child_write ==
    /\ childPc = "run"
    /\ Len(emitted) < MaxChildLines
    /\ \E s \in Streams : \E text \in ChildLines : \E wait \in BOOLEAN :
        /\ wait => IsPrompt(text)
        /\ pipe' = [pipe EXCEPT ![s] = @ \o text]
        /\ emitted' = Append(emitted, <<s, text>>)
        /\ childPc' = IF wait THEN "await" ELSE "run"
    /\ UNCHANGED <<envVars, wsVars, pc, exitCode, mainVars, childRc, closed,
                   loopVars, stdinPipe, stdinWrites, fatal, log>>

\* The child's read of its stdin returns once a response is in the pipe.
child_read_stdin ==
    /\ childPc = "await"
    /\ stdinPipe # <<>>
    /\ stdinPipe' = Tail(stdinPipe)
    /\ childPc' = "run"
    /\ UNCHANGED <<envVars, wsVars, pc, exitCode, mainVars, childRc, emitted,
                   closed, loopVars, pipe, stdinWrites, fatal, log>>

\* The child exits: the write ends of its output streams and the read end of
\* its stdin are closed.
child_exit ==
    /\ childPc = "run"
    /\ \E rc \in {0, 1} : childRc' = rc
    /\ childPc' = "exited"
    /\ closed' = [s \in Streams |-> TRUE]
    /\ UNCHANGED <<envVars, wsVars, pc, exitCode, mainVars, emitted, loopVars,
                   pipe, stdinPipe, stdinWrites, fatal, log>>

\* ------------------------------------------------------------ handle_aider_prompts
\* A stream is readable for select when its pipe holds data or its write end
\* is closed; select knows nothing of the text Python has already buffered.
Readable(s) == pipe[s] # <<>> \/ closed[s]

\* select.select([process.stdout, process.stderr], [], [], 0.1): the readable
\* streams in the order given; none after the timeout, and the loop polls again.
handle_aider_prompts_select ==
    /\ pc = "select"
    /\ ready' = (IF Readable("stdout") THEN <<"stdout">> ELSE <<>>)
                \o (IF Readable("stderr") THEN <<"stderr">> ELSE <<>>)
    /\ pc' = IF ready' = <<>> THEN "select" ELSE "readline"
    /\ UNCHANGED <<envVars, wsVars, exitCode, mainVars, childVars, pybuf, line,
                   console, echoed, pipe, stdinPipe, stdinWrites, fatal, log>>

\* The characters readline() on stream s has at hand: the buffered text when
\* it holds a whole line, otherwise the buffer and all the pipe holds.
AtHand(s) == IF HasNL(pybuf[s]) THEN pybuf[s] ELSE pybuf[s] \o pipe[s]

\* readline() on stream s returns: a line terminator, or the end of the
\* stream, has arrived.  Until then the call blocks.
ReadlineReturns(s) == HasNL(AtHand(s)) \/ closed[s]

\* The body of "for stream in ready" for the next stream: readline, the
\* return on an empty line, the echo, and the response to a prompt.  A write
\* to the stdin of a child that has exited raises BrokenPipeError, which
\* main's except Exception turns into exit status 1.
handle_aider_prompts_readline ==
    /\ pc = "readline"
    /\ ready # <<>>
    /\ LET s     == Head(ready)
           data  == AtHand(s)
           got   == FirstLine(data)
           reply == PromptResponse(got)
       IN /\ ReadlineReturns(s)
          /\ line' = got
          /\ pybuf' = [pybuf EXCEPT ![s] = AfterFirstLine(data)]
          /\ pipe' = IF HasNL(pybuf[s]) THEN pipe ELSE [pipe EXCEPT ![s] = <<>>]
          /\ ready' = Tail(ready)
          /\ IF got = <<>>
             THEN /\ pc' = "wait"
                  /\ UNCHANGED <<console, echoed, stdinPipe, stdinWrites, exitCode,
                                 fatal, log>>
             ELSE /\ console' = Append(console, got)
                  /\ echoed' = [echoed EXCEPT ![s] = @ \o got]
                  /\ IF reply = <<>>
                     THEN /\ pc' = IF Tail(ready) = <<>> THEN "select" ELSE "readline"
                          /\ UNCHANGED <<stdinPipe, stdinWrites, exitCode, fatal, log>>
                     ELSE IF childPc = "exited"
                     THEN /\ pc' = "exit"
                          /\ exitCode' = 1
                          /\ fatal' = "exception"
                          /\ log' = log \cup {UnexpectedError}
                          /\ UNCHANGED <<stdinPipe, stdinWrites>>
                     ELSE /\ pc' = IF Tail(ready) = <<>> THEN "select" ELSE "readline"
                          /\ stdinPipe' = stdinPipe \o reply
                          /\ stdinWrites' = stdinWrites \o reply
                          /\ UNCHANGED <<exitCode, fatal, log>>
    /\ UNCHANGED <<envVars, wsVars, mainVars, childVars>>

\* ------------------------------------------------------------ main, after the spawn
\* Ctrl-C while main is inside the try block: except KeyboardInterrupt prints
\* and exits with status 1.
main_keyboard_interrupt ==
    /\ pc \in {"select", "readline", "wait"}
    /\ fatal' = "interrupt"
    /\ pc' = "exit"
    /\ exitCode' = 1
    /\ log' = log \cup {Cancelled}
    /\ UNCHANGED <<envVars, wsVars, mainVars, childVars, loopVars, pipe, stdinPipe,
                   stdinWrites>>

\* rc = process.wait(): returns once the child has exited; a non-zero status
\* raises CalledProcessError, whose handler exits with status 1.
main_wait ==
    /\ pc = "wait"
    /\ childPc = "exited"
    /\ IF childRc # 0
       THEN /\ pc' = "exit"
            /\ exitCode' = 1
            /\ fatal' = "tool"
            /\ log' = log \cup {ToolError}
       ELSE pc' = "move" /\ UNCHANGED <<exitCode, fatal, log>>
    /\ UNCHANGED <<envVars, wsVars, mainVars, childVars, loopVars, pipe, stdinPipe,
                   stdinWrites>>

\* Where main goes after shutil.move: into the finally clause, whether the
\* move returned or its IOError was caught and printed.
AfterMoveExitOnError(ok) == IF ok THEN "unlink" ELSE "exit"

AfterMove(ok) == "unlink"

\* shutil.move(temp_message_file.name, os.path.join(os.getcwd(), basename)):
\* a rename onto itself when the working directory is the file's own
\* directory, a move otherwise; an IOError is printed and nothing else.
main_move ==
    /\ pc = "move"
    /\ \E cwd \in Dirs : \E ok \in BOOLEAN :
        /\ moveResult' = [cwd |-> cwd, ok |-> ok]
        /\ fs' = IF ok /\ cwd # temp_message_file
                 THEN [fs EXCEPT ![cwd] = fs[temp_message_file],
                                 ![temp_message_file] = "absent"]
                 ELSE fs
        /\ log' = IF ok THEN log ELSE log \cup {MoveError}
        /\ pc' = AfterMove(ok)
    /\ UNCHANGED <<envVars, wsVars, aider_command, args, exitCode, gitResult, instructions,
                   file_contents, readCount, message_content, temp_message_file,
                   spawnCount, unlinkAttempts, childVars, loopVars, pipe,
                   stdinPipe, stdinWrites, fatal>>

\* finally: os.unlink(temp_message_file.name), OSError ignored; main returns.
main_unlink ==
    /\ pc = "unlink"
    /\ unlinkAttempts' = unlinkAttempts + 1
    /\ fs' = [fs EXCEPT ![temp_message_file] = "absent"]
    /\ pc' = "exit"
    /\ exitCode' = 0
    /\ UNCHANGED <<envVars, wsVars, aider_command, args, gitResult, instructions, file_contents,
                   readCount, message_content, temp_message_file, spawnCount,
                   moveResult, childVars, loopVars, pipe, stdinPipe, stdinWrites,
                   fatal, log>>

Next ==
    \/ main_parse_args
    \/ main_git_commit
    \/ main_get_instructions
    \/ main_read_files
    \/ main_create_message
    \/ main_stage
    \/ main_spawn
    \/ child_write
    \/ child_read_stdin
    \/ child_exit
    \/ handle_aider_prompts_select
    \/ handle_aider_prompts_readline
    \/ main_keyboard_interrupt
    \/ main_wait
    \/ main_move
    \/ main_unlink

Spec == Init /\ [][Next]_vars

\* ------------------------------------------------------------ one line, any line
\* The texts of n tokens, before their line terminator.
TextsOfLen(n) == [1..n -> LineTokens]

\* The wrapper is polling a child that wrote one line, any line of at most
\* MaxLineLen tokens, to one of its streams and now reads its stdin.
InitPrompts ==
    /\ pc = "select"
    /\ args = [clipboard |-> FALSE, instructions |-> TRUE, filenames |-> <<"a.py">>]
    /\ exitCode = -1
    /\ gitResult = "committed"
    /\ instructions = InstructionFileText
    /\ file_contents = DictOf(<<"a.py">>)
    /\ readCount = 2
    /\ message_content = create_message_content(InstructionFileText, DictOf(<<"a.py">>))
    /\ temp_message_file = TempDir
    /\ fs = [d \in Dirs |-> IF d = TempDir THEN "full" ELSE "absent"]
    /\ spawnCount = 1
    /\ childPc = "await"
    /\ childRc = -1
    /\ \E s \in Streams : \E n \in 0..MaxLineLen : \E text \in TextsOfLen(n) :
        /\ emitted = << <<s, Append(text, NL)>> >>
        /\ pipe = [x \in Streams |-> IF x = s THEN Append(text, NL) ELSE <<>>]
    /\ closed = [s \in Streams |-> FALSE]
    /\ pybuf = EmptyStreams
    /\ stdinPipe = <<>>
    /\ stdinWrites = <<>>
    /\ ready = <<>>
    /\ line = <<>>
    /\ console = <<>>
    /\ fatal = "none"
    /\ moveResult = NoMove
    /\ unlinkAttempts = 0
    /\ log = {}
    /\ echoed = EmptyStreams
    /\ clipboard = ClipboardExample
    /\ typed = TypedLine
    /\ connection_state = "disconnected"
    /\ reconnect_attempts = 0
    /\ logged = <<>>
    /\ options = DefaultOptions
    /\ aider_command = BuildAiderCommand(DefaultOptions, TempDir, <<"a.py">>)

NextPrompts ==
    \/ handle_aider_prompts_select
    \/ handle_aider_prompts_readline

SpecPrompts == InitPrompts /\ [][NextPrompts]_vars

\* ------------------------------------------------------------ one clipboard, any text
\* The texts of n characters.
ClipTextsOfLen(n) == [1..n -> ClipChars]

\* main is about to get its instructions from the clipboard, which holds any
\* text of at most MaxClipLen characters, or the example text.
InitClipboard ==
    /\ pc = "instructions"
    /\ args = [clipboard |-> TRUE, instructions |-> FALSE, filenames |-> <<"a.py">>]
    /\ exitCode = -1
    /\ gitResult = "committed"
    /\ instructions = <<>>
    /\ file_contents = <<>>
    /\ readCount = 0
    /\ message_content = <<>>
    /\ temp_message_file = "none"
    /\ fs = [d \in Dirs |-> "absent"]
    /\ spawnCount = 0
    /\ childPc = "none"
    /\ childRc = -1
    /\ emitted = <<>>
    /\ pipe = EmptyStreams
    /\ closed = [s \in Streams |-> FALSE]
    /\ pybuf = EmptyStreams
    /\ stdinPipe = <<>>
    /\ stdinWrites = <<>>
    /\ ready = <<>>
    /\ line = <<>>
    /\ console = <<>>
    /\ fatal = "none"
    /\ moveResult = NoMove
    /\ unlinkAttempts = 0
    /\ log = {}
    /\ echoed = EmptyStreams
    /\ \/ clipboard = ClipboardExample
       \/ \E n \in 0..MaxClipLen : \E text \in ClipTextsOfLen(n) : clipboard = text
    /\ typed = TypedLine
    /\ connection_state = "disconnected"
    /\ reconnect_attempts = 0
    /\ logged = <<>>
    /\ options = DefaultOptions
    /\ aider_command = <<>>

NextClipboard == main_get_instructions

SpecClipboard == InitClipboard /\ [][NextClipboard]_vars

\* ------------------------------------------------------------ one command line, any options
\* main has staged the document and is about to build the command and spawn
\* the child, with any of the option values and file arguments.
InitCommand ==
    /\ pc = "spawn"
    /\ \E names \in FilenameArgs :
        /\ args = [clipboard |-> FALSE, instructions |-> TRUE, filenames |-> names]
        /\ file_contents = DictOf(names)
        /\ readCount = 1 + Len(names)
        /\ message_content = create_message_content(InstructionFileText, DictOf(names))
    /\ exitCode = -1
    /\ gitResult = "committed"
    /\ instructions = InstructionFileText
    /\ temp_message_file = TempDir
    /\ fs = [d \in Dirs |-> IF d = TempDir THEN "full" ELSE "absent"]
    /\ spawnCount = 0
    /\ childPc = "none"
    /\ childRc = -1
    /\ emitted = <<>>
    /\ pipe = EmptyStreams
    /\ closed = [s \in Streams |-> FALSE]
    /\ pybuf = EmptyStreams
    /\ stdinPipe = <<>>
    /\ stdinWrites = <<>>
    /\ ready = <<>>
    /\ line = <<>>
    /\ console = <<>>
    /\ fatal = "none"
    /\ moveResult = NoMove
    /\ unlinkAttempts = 0
    /\ log = {}
    /\ echoed = EmptyStreams
    /\ clipboard = ClipboardExample
    /\ typed = TypedLine
    /\ connection_state = "disconnected"
    /\ reconnect_attempts = 0
    /\ logged = <<>>
    /\ options \in OptionSets
    /\ aider_command = <<>>

NextCommand == main_spawn

SpecCommand == InitCommand /\ [][NextCommand]_vars

\* ------------------------------------------------------------ WebSocketManager
\* WebSocketManager.max_reconnect_attempts
max_reconnect_attempts == 5

MaxReached == "Max reconnection attempts reached"

\* reconnect_attempts after an attempt that kept its count on success.
AttemptsAfterKeepOnSuccess(connected, n) == IF connected THEN n ELSE n + 1

\* reconnect_attempts after an attempt made with n attempts counted so far.
AttemptsAfter(connected, n) == IF connected THEN 0 ELSE n + 1

\* attempt_reconnect(): at the maximum it logs and returns; otherwise it calls
\* parent.connect_websocket(), which returns or raises.
attempt_reconnect ==
    /\ Len(logged) < MaxManagerCalls
    /\ IF reconnect_attempts >= max_reconnect_attempts
       THEN /\ logged' = Append(logged, MaxReached)
            /\ UNCHANGED <<connection_state, reconnect_attempts>>
       ELSE \E connected \in BOOLEAN :
            /\ connection_state' = IF connected THEN "connected" ELSE "disconnected"
            /\ reconnect_attempts' = AttemptsAfter(connected, reconnect_attempts)
            /\ logged' = Append(logged, IF connected THEN "connect_websocket returned"
                                        ELSE "connect_websocket raised")
    /\ UNCHANGED <<pc, exitCode, mainVars, childVars, loopVars, envVars, pipe,
                   stdinPipe, stdinWrites, fatal, log>>

\* check_connection(): parent.ws.ping() returns, or raises and the state
\* becomes disconnected.
check_connection ==
    /\ Len(logged) < MaxManagerCalls
    /\ connection_state = "connected"
    /\ \E pong \in BOOLEAN :
        /\ connection_state' = IF pong THEN "connected" ELSE "disconnected"
        /\ logged' = Append(logged, IF pong THEN "ping returned" ELSE "ping raised")
    /\ UNCHANGED <<pc, exitCode, mainVars, childVars, loopVars, envVars, pipe,
                   stdinPipe, stdinWrites, fatal, log, reconnect_attempts>>

NextManager ==
    \/ attempt_reconnect
    \/ check_connection

\* A WebSocketManager as constructed, in a wrapper that has not started.
InitManager ==
    /\ Init
    /\ args = [clipboard |-> FALSE, instructions |-> TRUE, filenames |-> <<>>]

SpecManager == InitManager /\ [][NextManager]_vars

\* ------------------------------------------------------------ properties
\* The line that readline returned went through the echo and the prompt rules.
Handled == console # <<>>

\* A text in which "Add ", a non-empty FILE without a line terminator, and
\* " to the chat? (Y)es/(N)o [Yes]:" follow one another.
OfFilePromptShape(text) ==
    \E i \in 1..Len(text) : \E n \in 1..Len(text) :
        /\ i + n + 2 <= Len(text)
        /\ text[i] = tAdd
        /\ NL \notin Range(SubSeq(text, i + 1, i + n))
        /\ SubSeq(text, i + n + 1, i + n + 2) = <<tTail, tYes>>

\* C1: a line that contains the single-link prompt (the one without the
\* (A)ll choice) makes handle_aider_prompts write exactly "N" and a line
\* terminator to the child's stdin, and nothing else.
C1_SingleLinkAnsweredNo ==
    (Handled /\ Contains(line, SingleLinkPrompt)) => stdinWrites = <<"N\n">>

\* C2: however a run ends once the instruction file is staged, the staged file
\* has been unlinked exactly once and is no longer at its temporary path.
C2_StagedFileRemovedOnEveryExit ==
    (pc = "exit" /\ spawnCount > 0)
        => (unlinkAttempts = 1 /\ fs[temp_message_file] = "absent")

\* Where a file's block starts in a document.
BlockPositions(doc, entry) ==
    {p \in 1..(Len(doc) - Len(FileBlock(entry)) + 1) :
        SubSeq(doc, p, p + Len(FileBlock(entry)) - 1) = FileBlock(entry)}

\* C3: for a non-empty mapping the document built by create_message_content
\* holds exactly one fenced block per file, headed by the file's name and
\* holding its content, in input order, together with the task text.
C3_OneBlockPerFileInOrder ==
    (message_content # <<>> /\ file_contents # <<>>) =>
        /\ \A i \in 1..Len(file_contents) :
              Cardinality(BlockPositions(message_content, file_contents[i])) = 1
        /\ \A i, j \in 1..Len(file_contents) :
              i < j => \A p \in BlockPositions(message_content, file_contents[i]) :
                       \A q \in BlockPositions(message_content, file_contents[j]) : p < q
        /\ Contains(message_content, instructions)

\* C4: when the child wrote one per-file prompt and exited with status 0, and
\* nobody interrupted the run and the move did not fail, the run ends with
\* exit status 0 and the staged file is in the working directory.
C4_OnePromptThenExitZeroSucceeds ==
    ( /\ pc = "exit"
      /\ emitted # <<>>
      /\ \A i \in 1..Len(emitted) : emitted[i][2] = Append(FilePrompt, NL)
      /\ Len(emitted) = 1
      /\ childPc = "exited"
      /\ childRc = 0
      /\ fatal # "interrupt"
      /\ moveResult = NoMove \/ moveResult.ok )
        => ( /\ exitCode = 0
             /\ moveResult.ok
             /\ fs[moveResult.cwd] = "full" )

\* C5: the exit status is 0 exactly when no fatal condition ended the run, and
\* 1 for every fatal condition, the usage error included.
C5_ExitCodeZeroOrOne ==
    pc = "exit" => exitCode = (IF fatal = "none" THEN 0 ELSE 1)

\* C6: a line of the per-file prompt's shape, whatever the non-empty FILE,
\* makes handle_aider_prompts write exactly "Y" and a line terminator to the
\* child's stdin, and nothing else.
C6_FilePromptAnsweredYes ==
    (Handled /\ OfFilePromptShape(line))
        => (stdinWrites = <<"Y\n">> /\ stdinPipe = <<"Y\n">>)

C6_Witness ==
    /\ Handled
    /\ line = Append(FilePrompt, NL)
    /\ stdinWrites = <<"Y\n">>

\* C7, as claimed: every line that contains the multi-link prompt makes
\* handle_aider_prompts write exactly "S" and a line terminator.
C7_MultiLinkAnsweredSkipAll_AsClaimed ==
    (Handled /\ Contains(line, MultiLinkPrompt)) => stdinWrites = <<"S\n">>

\* C7, amended: every line that contains the multi-link prompt and is not also
\* of the per-file prompt's shape makes handle_aider_prompts write exactly "S"
\* and a line terminator to the child's stdin, and nothing else.
C7_MultiLinkAnsweredSkipAll ==
    (Handled /\ Contains(line, MultiLinkPrompt) /\ ~OfFilePromptShape(line))
        => (stdinWrites = <<"S\n">> /\ stdinPipe = <<"S\n">>)

C7_Witness ==
    /\ Handled
    /\ line = Append(MultiLinkPrompt, NL)
    /\ stdinWrites = <<"S\n">>

\* C8: a line that matches none of the three prompt patterns causes no write
\* to the child's stdin and no error: the stdin pipe is as it was and the
\* polling loop goes on.
C8_UnmatchedLineWritesNothing ==
    ( /\ Handled
      /\ ~OfFilePromptShape(line)
      /\ ~Contains(line, MultiLinkPrompt)
      /\ ~Contains(line, SingleLinkPrompt) )
        => ( /\ stdinWrites = <<>>
             /\ stdinPipe = <<>>
             /\ fatal = "none"
             /\ exitCode = -1
             /\ pc \in {"select", "readline"} )

C8_Witness ==
    /\ Handled
    /\ line = <<tAdd, tText, tTail, NL>>
    /\ stdinWrites = <<>>
    /\ pc = "select"

\* C9: after a successful child run and a move that did not fail, the run ends
\* with the file at <working directory>/<base name>, and with no file at the
\* staged path when that is another path: the final unlink removes nothing.
C9_RelocatedFileSurvivesDiscard ==
    (pc = "exit" /\ moveResult.ok) =>
        /\ fs[moveResult.cwd] = "full"
        /\ (moveResult.cwd # temp_message_file => fs[temp_message_file] = "absent")

\* C10: with both or neither of the instruction file and the clipboard option
\* the run ends as a usage error with a non-zero exit status before any work:
\* no commit attempted, no file read, no temporary file, no child; with
\* exactly one of them the run is never a usage error.
C10_UsageErrorBeforeAnyWork ==
    /\ (args.clipboard = args.instructions) =>
          /\ pc \in {"parse", "exit"}
          /\ gitResult = "none"
          /\ readCount = 0
          /\ temp_message_file = "none"
          /\ \A d \in Dirs : fs[d] = "absent"
          /\ spawnCount = 0
          /\ childPc = "none"
          /\ pc = "exit" => (fatal = "usage" /\ exitCode \notin {-1, 0})
    /\ (args.clipboard # args.instructions) => fatal # "usage"

C10_Witness ==
    /\ pc = "exit"
    /\ ~args.clipboard
    /\ ~args.instructions
    /\ exitCode = 2

\* C11: when writing the document to the staged file fails, the run ends with
\* the staging error and exit status 1, no child is spawned, and no file,
\* partial or empty, remains at the staged path.
C11_FailedStagingLeavesNoArtifact ==
    fatal = "staging" =>
        /\ pc = "exit"
        /\ exitCode = 1
        /\ StagingError \in log
        /\ spawnCount = 0
        /\ childPc = "none"
        /\ fs[temp_message_file] = "absent"

\* C12: when, after the child exited with status 0, the move of the staged
\* file fails, the failure is printed, the run is not fatal and ends with exit
\* status 0, and the staged file has been unlinked by then.
C12_MoveFailureKeepsExitZero ==
    (moveResult.cwd # "none" /\ ~moveResult.ok) =>
        /\ MoveError \in log
        /\ fatal = "none"
        /\ childRc = 0
        /\ pc \in {"unlink", "exit"}
        /\ pc = "unlink" => exitCode = -1
        /\ pc = "exit" => ( /\ exitCode = 0
                            /\ unlinkAttempts = 1
                            /\ fs[temp_message_file] = "absent" )

C12_Witness ==
    /\ pc = "exit"
    /\ moveResult.cwd = "/work"
    /\ ~moveResult.ok
    /\ exitCode = 0
    /\ fs["/work"] = "absent"

\* The text came from pyperclip.paste(): get_clipboard_content has returned
\* and printed no clipboard error.
Pasted == pc = "files" /\ log \cap {ClipboardUnavailable, ClipboardError} = {}

IsLetter(c) == c \notin Whitespace

\* C13: the text get_clipboard_content returns for a pasted clipboard text has
\* no carriage return, no three line feeds in a row and no whitespace at
\* either end; it keeps the other characters; the example text a CRLF b CRLF
\* CRLF CRLF c gives a LF b LF LF c; and normalizing the result again gives the
\* result.
C13_ClipboardNormalized ==
    Pasted =>
        /\ CR \notin Range(instructions)
        /\ ~Contains(instructions, <<NL, NL, NL>>)
        /\ instructions # <<>> =>
              /\ Head(instructions) \notin Whitespace
              /\ instructions[Len(instructions)] \notin Whitespace
        /\ SelectSeq(instructions, IsLetter) = SelectSeq(clipboard, IsLetter)
        /\ clipboard = ClipboardExample => instructions = <<"a", NL, "b", NL, NL, "c">>
        /\ NormalizeClipboard(instructions) = instructions

C13_Witness ==
    /\ Pasted
    /\ clipboard = <<CR, "a", CR, NL, CR, NL>>
    /\ instructions = <<"a">>

GitFailures == {"absent", "not_a_repo", "error"}

\* C14: the auto-commit step never ends the run: whatever its outcome, main
\* goes on to get the instructions with no exit status and no fatal condition
\* set, and when there was no commit (git module absent, not a repository, or
\* the commit raised) it has printed the warning for that outcome.
C14_GitFailureNotFatal ==
    [][ pc = "git" =>
          /\ pc' = "instructions"
          /\ exitCode' = -1
          /\ fatal' = "none"
          /\ gitResult' \in GitFailures =>
                (GitMessage(gitResult') # {} /\ GitMessage(gitResult') \subseteq log') ]_vars

C14_Witness ==
    /\ gitResult = "error"
    /\ GitCommitError \in log
    /\ instructions # <<>>
    /\ fs[TempDir] = "full"
    /\ spawnCount = 1
    /\ childPc = "run"

\* C15: when the clipboard option is given and the clipboard module is absent
\* or paste() raises, get_clipboard_content asks for manual input, and the
\* run goes on with the typed line (stripped) as its instructions: main has
\* left the step, and the document it builds holds that text.
C15_ClipboardFallsBackToManualInput ==
    (log \cap {ClipboardUnavailable, ClipboardError} # {}) =>
        /\ args.clipboard
        /\ EnterManually \in log
        /\ instructions = Strip(typed)
        /\ instructions # <<>>
        /\ pc # "instructions"
        /\ fatal # "usage"
        /\ message_content # <<>> => Contains(message_content, Strip(typed))

C15_Witness ==
    /\ ClipboardError \in log
    /\ instructions = <<"f", "i", "x">>
    /\ spawnCount = 1
    /\ childPc = "run"

\* C16: a WebSocketManager starts disconnected with no reconnect attempts
\* counted and a maximum of 5.  An attempt_reconnect whose connect returns
\* leaves it connected with the count back at 0; one whose connect raises
\* leaves it disconnected with the count one higher; and once the count has
\* reached the maximum, attempt_reconnect no longer connects: it logs that the
\* maximum was reached and changes neither the state nor the count.
C16_ReconnectBookkeeping ==
    /\ connection_state = "disconnected"
    /\ reconnect_attempts = 0
    /\ max_reconnect_attempts = 5
    /\ [][ logged' # logged =>
            LET call == logged'[Len(logged')]
            IN /\ call = "connect_websocket returned" =>
                     /\ connection_state' = "connected"
                     /\ reconnect_attempts' = 0
               /\ call = "connect_websocket raised" =>
                     /\ connection_state' = "disconnected"
                     /\ reconnect_attempts' = reconnect_attempts + 1
               /\ call = MaxReached =>
                     /\ reconnect_attempts = max_reconnect_attempts
                     /\ UNCHANGED <<connection_state, reconnect_attempts>>
               /\ reconnect_attempts >= max_reconnect_attempts =>
                     call \notin {"connect_websocket returned",
                                  "connect_websocket raised"} ]_vars

C16_Witness ==
    /\ reconnect_attempts = max_reconnect_attempts
    /\ connection_state = "disconnected"
    /\ "connect_websocket returned" \in Range(logged)
    /\ logged[Len(logged)] = MaxReached

\* The child has written a prompt and reads its stdin, which holds no response.
ChildAwaitsResponse == childPc = "await" /\ stdinPipe = <<>>

\* handle_aider_prompts is blocked in readline, or polls streams none of which
\* select finds readable.
WrapperAwaitsOutput ==
    \/ pc = "readline" /\ ready # <<>> /\ ~ReadlineReturns(Head(ready))
    \/ pc = "select" /\ \A s \in Streams : ~Readable(s)

\* C17: no reachable state has the wrapper waiting for output of the child
\* while the child, having written a prompt, waits for the wrapper's response.
C17_NoDeadlock == ~(ChildAwaitsResponse /\ WrapperAwaitsOutput)

\* C18: when handle_aider_prompts has returned, both streams are at their end
\* with nothing unread: each is closed, its pipe is empty, and Python holds no
\* buffered text of it.
C18_ReturnsOnlyAtEndOfBothStreams ==
    pc = "wait" =>
        \A s \in Streams : closed[s] /\ pipe[s] = <<>> /\ pybuf[s] = <<>>

\* All the child has written to stream s, in the order written.
RECURSIVE Written(_, _)
Written(out, s) ==
    IF out = <<>> THEN <<>>
    ELSE (IF Head(out)[1] = s THEN Head(out)[2] ELSE <<>>) \o Written(Tail(out), s)

\* handle_aider_prompts has returned to main.
SupervisionEnded ==
    \/ pc \in {"wait", "move", "unlink"}
    \/ pc = "exit" /\ fatal \in {"none", "tool"}

\* C19: once supervision has ended, what was echoed of each stream is exactly
\* what the child wrote to it, in order, whatever the child's exit status.
C19_EveryLineEchoed ==
    SupervisionEnded => \A s \in Streams : echoed[s] = Written(emitted, s)

\* ------------------------------------------------------------ termination
\* The wrapper's process takes its next step when it can, a child that can
\* read its answer reads it, and a child that can exit does exit; nothing
\* makes the user interrupt the run.
Fairness ==
    /\ WF_vars(main_parse_args)
    /\ WF_vars(main_git_commit)
    /\ WF_vars(main_get_instructions)
    /\ WF_vars(main_read_files)
    /\ WF_vars(main_create_message)
    /\ WF_vars(main_stage)
    /\ WF_vars(main_spawn)
    /\ WF_vars(handle_aider_prompts_select)
    /\ WF_vars(handle_aider_prompts_readline)
    /\ WF_vars(main_wait)
    /\ WF_vars(main_move)
    /\ WF_vars(main_unlink)
    /\ WF_vars(child_read_stdin)
    /\ WF_vars(child_exit)

SpecFair == Init /\ [][Next]_vars /\ Fairness

\* C20: with a child that exits once its prompts are answered, every run
\* ends: the polling loop returns and wait returns.
C20_EveryRunTerminates == <>(pc = "exit")

\* C21: the read on a stream that select reported ready completes with what
\* is at hand: readline never has to wait for the child to write more.
C21_ReadNeverWaitsForMoreOutput ==
    (pc = "readline" /\ ready # <<>>) => ReadlineReturns(Head(ready))

\* C22: for every line read, at most one response is written to the child's
\* stdin, and it is the response of the first rule the line matches in the
\* order per-file, multi-link, single-link; none when it matches no rule.
C22_FirstMatchingRuleWins ==
    Handled =>
        /\ Len(stdinWrites) <= 1
        /\ stdinWrites = IF OfFilePromptShape(line) THEN <<"Y\n">>
                         ELSE IF Contains(line, MultiLinkPrompt) THEN <<"S\n">>
                         ELSE IF Contains(line, SingleLinkPrompt) THEN <<"N\n">>
                         ELSE <<>>

C22_Witness ==
    /\ Handled
    /\ line = MultiLinkPrompt \o <<tTail, tYes, NL>>
    /\ OfFilePromptShape(line)
    /\ stdinWrites = <<"Y\n">>

\* The number of prompt patterns a line matches.
MatchCount(text) ==
    (IF OfFilePromptShape(text) THEN 1 ELSE 0)
    + (IF Contains(text, MultiLinkPrompt) THEN 1 ELSE 0)
    + (IF Contains(text, SingleLinkPrompt) THEN 1 ELSE 0)

\* C23: no line matches more than one of the three prompt patterns, and a
\* line that contains the single-link prompt is answered by the single-link
\* rule.
C23_PatternsMutuallyExclusive ==
    Handled =>
        /\ MatchCount(line) <= 1
        /\ Contains(line, SingleLinkPrompt) => stdinWrites # <<"Y\n">>

\* The staged file has been neither moved nor unlinked.
StagedFileUntouched == moveResult = NoMove /\ unlinkAttempts = 0

\* C24: the steps of a run come in one order.  A child is spawned only after
\* the document was built and the staged file written completely, and the
\* file stays so until main moves it; handle_aider_prompts runs, echoes and
\* answers only with a child spawned and before wait, and does nothing more
\* once it has returned; the staged file is moved or unlinked only after wait
\* has returned the exit status of a child that has exited.
C24_StepsInOrder ==
    /\ []( /\ spawnCount > 0 =>
                 /\ message_content = create_message_content(instructions, file_contents)
                 /\ temp_message_file = TempDir
                 /\ StagedFileUntouched => fs[temp_message_file] = "full"
           /\ pc \in {"select", "readline"} =>
                 (spawnCount = 1 /\ childPc # "none" /\ StagedFileUntouched)
           /\ (console # <<>> \/ stdinWrites # <<>>) => spawnCount = 1
           /\ ~StagedFileUntouched =>
                 /\ childPc = "exited"
                 /\ childRc = 0
                 /\ fatal = "none"
                 /\ pc \in {"unlink", "exit"} )
    /\ [][ (pc \in {"wait", "move", "unlink", "exit"}) =>
              UNCHANGED <<console, echoed, stdinWrites, pybuf>> ]_vars

C24_Witness ==
    /\ pc = "exit"
    /\ exitCode = 0
    /\ moveResult = [cwd |-> "/work", ok |-> TRUE]
    /\ fs["/work"] = "full"
    /\ stdinWrites = <<"Y\n">>
    /\ unlinkAttempts = 1

\* The strings that are flags of the command.
Flags ==
    {"--no-pretty", "--dark-mode", "--yes", "--editor-model", "--chat-mode",
     "--message-file", "--suggest-shell-commands", "--model"}

\* C25: the command given to Popen is, in order, the program, the fixed flags,
\* the chat mode, the message file naming the staged path, the
\* suggest-shell-commands flag exactly when enabled, the model, and the file
\* arguments as given; every flag and every value is an argument of its own.
C25_CommandLineAsClaimed ==
    spawnCount > 0 =>
        /\ aider_command =
              << <<"aider">>, <<"--no-pretty">>, <<"--dark-mode">>, <<"--yes">>,
                 <<"--editor-model">>, <<"o1-mini">>,
                 <<"--chat-mode">>, <<options.chat_mode>>,
                 <<"--message-file">>, StagedName(temp_message_file) >>
              \o (IF options.suggest_shell_commands
                  THEN << <<"--suggest-shell-commands">> >> ELSE <<>>)
              \o (IF options.model # "" THEN << <<"--model">>, <<options.model>> >>
                  ELSE <<>>)
              \o FileArgs(args.filenames)
        /\ \A i \in 1..Len(aider_command) :
              Head(aider_command[i]) \in Flags => Len(aider_command[i]) = 1

\* process.wait() has returned the child's exit status: main went on to the
\* move, or raised CalledProcessError for a non-zero status.
StatusCollected ==
    \/ pc \in {"move", "unlink"}
    \/ pc = "exit" /\ fatal \in {"none", "tool"}

\* C26: when the wrapper exits after a child was spawned, the child has
\* exited and wait has returned its exit status.
C26_ChildReapedOnEveryExit ==
    (pc = "exit" /\ childPc # "none") => (childPc = "exited" /\ StatusCollected)

====
